---- MODULE Spec2Model ----
(***************************************************************************)
(* Model of the Innovanta analysis backend.                                *)
(*                                                                         *)
(*   src/unnamed/part_000 : the callable function analyzeCsvContent, the   *)
(*                          shared MongoDB connection (connectToMongo) and *)
(*                          the Gemini client initialised at load time.    *)
(*   src/api/analyze.js   : the HTTP handler that forwards fileContent to  *)
(*                          the generation service.                        *)
(*                                                                         *)
(* Every invocation of analyzeCsvContent is a process.  JavaScript runs a  *)
(* handler without interruption up to its next await, so one action is one *)
(* such synchronous segment: it starts when the awaited promise settles    *)
(* and runs to the next await (or to the end of the handler).  The outcome *)
(* of an external call (driver, generation service) is chosen by the       *)
(* environment when the promise settles.                                   *)
(*                                                                         *)
(* The dates of a record (createdAt, lastUpdated) are kept as "set or not" *)
(* only: no decision in the code reads them.                               *)
(***************************************************************************)
EXTENDS Integers, Sequences, FiniteSets

\* ---------------------------------------------------------------- bounds
\* Number of invocations of analyzeCsvContent in one process; they may overlap.
NumInv == 2

Invs == 1 .. NumInv

\* Number of requests to the HTTP handler of api/analyze.js; they may overlap.
NumReq == 2

Reqs == 1 .. NumReq

\* ------------------------------------------------------ JavaScript values
\* A payload field: undefined, a number or a string (a sequence of characters).
Undef == [t |-> "undefined", s |-> <<>>, n |-> 0]

Str(s) == [t |-> "string", s |-> s, n |-> 0]

Num(n) == [t |-> "number", s |-> <<>>, n |-> n]

\* JavaScript truthiness of a payload field (the operand of `!`).
Truthy(v) ==
    CASE v.t = "undefined" -> FALSE
      [] v.t = "string"    -> v.s # <<>>
      [] v.t = "number"    -> v.n # 0

IsWhitespace(c) == c = " "

RECURSIVE TrimStart(_)
TrimStart(s) ==
    IF s = <<>> THEN <<>>
    ELSE IF IsWhitespace(Head(s)) THEN TrimStart(Tail(s)) ELSE s

RECURSIVE TrimEnd(_)
TrimEnd(s) ==
    IF s = <<>> THEN <<>>
    ELSE IF IsWhitespace(s[Len(s)]) THEN TrimEnd(SubSeq(s, 1, Len(s) - 1)) ELSE s

\* String.prototype.trim
Trim(s) == TrimEnd(TrimStart(s))

\* An optional value: <<>> is null, <<x>> is the value x.
None == <<>>

Some(x) == <<x>>

\* ------------------------------------------------------------- the inputs
Uids == {"u1"}

\* context.auth: absent (None) or carrying the caller's uid.
Auths == {None} \cup {Some(u) : u \in Uids}

FileContents == {Undef, Num(5), Str(<<>>), Str(<<" ", " ">>), Str(<<" ", "a", " ">>)}

FileNames == {Undef, Num(5), Str(<<"f">>)}

\* The payloads tried: every fileContent with a good fileName, every
\* fileName with a good fileContent, and one payload with both fields bad.
Payloads ==
    {[fileContent |-> fc, fileName |-> Str(<<"f">>)] : fc \in FileContents}
    \cup {[fileContent |-> Str(<<" ", "a", " ">>), fileName |-> fn] : fn \in FileNames}
    \cup {[fileContent |-> Str(<<" ", " ">>), fileName |-> Undef]}

\* Messages of the errors the generation service throws; the empty message
\* is an Error constructed without one.
GenMessages == {"", "E1"}

\* Messages of the errors the MongoDB driver throws (never empty).
DriverMessages == {"E2"}

\* Texts the generation service returns.
Texts == {"R1"}

\* What model.generateContent resolves to: the response may be missing, may
\* lack candidates, and the first part may lack text or carry an empty text.
GenResults ==
    {[response |-> FALSE, candidates |-> FALSE, text |-> None],
     [response |-> TRUE, candidates |-> FALSE, text |-> None],
     [response |-> TRUE, candidates |-> TRUE, text |-> None],
     [response |-> TRUE, candidates |-> TRUE, text |-> Some("")]}
    \cup {[response |-> TRUE, candidates |-> TRUE, text |-> Some(x)] : x \in Texts}

\* --------------------------------------------------------------- the state
VARIABLES
    genAI,         \* TRUE when GoogleGenerativeAI was constructed at load time
    mongoUri,      \* TRUE when functions.config().mongodb.uri is set
    mongoClient,   \* the shared client: 0 (undefined/null) or a client's number
    mongoDb,       \* the shared db handle: 0 or the number of the client it belongs to
    clients,       \* state of every MongoClient object ever constructed
    store,         \* the analysisReports collection: _id n is store[n]
    insertedBy,    \* history: the invocation whose insertOne created store[n]
    writes,        \* history: how many writes were applied to store[n]
    pc,            \* where each invocation stands
    auth,          \* context.auth of each invocation
    data,          \* the payload of each invocation
    connResult,    \* the settled promise of connectToMongo the handler awaits
    connError,     \* connectToMongo: the error e held while close() is awaited
    mongoDocId,    \* handler local: 0 is undefined
    reportText,    \* handler local
    errorMessage,  \* catch block local
    response,      \* what the invocation returned or threw
    genCalls,      \* history: calls of model.generateContent made
    primary,       \* history: the first failure of the invocation
    okUpd,         \* history: outcome of the 'completed' updateOne
    errUpd,        \* history: outcome of the 'error' updateOne
    overlapped,    \* history: a connectToMongo call began while another was in flight
    hpc,           \* api/analyze.js: where each request stands
    req,           \* api/analyze.js: method and body of each request
    aiResponse,    \* api/analyze.js: what generateContent resolved to (None before)
    res,           \* api/analyze.js: the reply sent
    hGenCalls      \* api/analyze.js history: calls of ai.models.generateContent made

connVars == <<mongoClient, mongoDb, clients>>

storeVars == <<store, insertedBy, writes>>

cfgVars == <<genAI, mongoUri>>

reqVars == <<auth, data>>

histVars == <<genCalls, primary, okUpd, errUpd>>

localVars == <<connResult, connError, mongoDocId, reportText, errorMessage>>

httpVars == <<hpc, req, aiResponse, res, hGenCalls>>

\* The variables of src/unnamed/part_000.
callableVars ==
    <<genAI, mongoUri, mongoClient, mongoDb, clients, store, insertedBy, writes,
      pc, auth, data, connResult, connError, mongoDocId, reportText,
      errorMessage, response, genCalls, primary, okUpd, errUpd>>

vars ==
    <<genAI, mongoUri, mongoClient, mongoDb, clients, store, insertedBy, writes,
      pc, auth, data, connResult, connError, mongoDocId, reportText,
      errorMessage, response, genCalls, primary, okUpd, errUpd, overlapped,
      hpc, req, aiResponse, res, hGenCalls>>

\* ------------------------------------------------------------ the replies
NoResponse ==
    [kind |-> "none", code |-> "", message |-> <<>>, reportId |-> <<>>,
     report |-> "", fileName |-> Undef]

\* new functions.https.HttpsError(code, message), thrown to the caller.
HttpsError(code, message) ==
    [kind |-> "error", code |-> code, message |-> message, reportId |-> <<>>,
     report |-> "", fileName |-> Undef]

RECURSIVE Digits(_)
Digits(n) == IF n < 10 THEN <<n>> ELSE Append(Digits(n \div 10), n % 10)

\* mongoDocId.toString(): the identifier written out, here in decimal digits.
ToString(id) == Digits(id)

\* The success reply carrying the id of the first record of the collection.
SuccessResponse_FirstId(id, text, name) ==
    [kind |-> "success", code |-> "completed", message |-> <<>>,
     reportId |-> ToString(1), report |-> text, fileName |-> name]

\* The object returned at the end of the try block (code holds its status).
SuccessResponse(id, text, name) ==
    [kind |-> "success", code |-> "completed", message |-> <<>>,
     reportId |-> ToString(id), report |-> text, fileName |-> name]

MsgUnauthenticated == <<"The function must be called while authenticated.">>

MsgFileContent == <<"The function must be called with a non-empty \"fileContent\" string.">>

MsgFileName == <<"The function must be called with a \"fileName\" string.">>

MsgAiInit == <<"AI Service Initialization Failed. Contact support.">>

MsgDbConnect == <<"Database connection failed. Contact support.">>

MsgNoUri == "MongoDB URI not found in Firebase Functions config."

MsgNullClient == "Cannot read properties of null (reading 'db')"

MsgInvalidResponse == "AI analysis returned an invalid or empty response structure."

\* `AI Analysis Failed: ${errorMessage}`
MsgAnalysisFailed(m) == <<"AI Analysis Failed: ", m>>

\* err.message || 'Unknown error during analysis.'
ErrorMessage(m) == IF m = "" THEN "Unknown error during analysis." ELSE m

\* ------------------------------------------------------------- validation
\* The first input check without its trim().
FileContentOk_NoTrim(fc) == Truthy(fc) /\ fc.t = "string"

\* The condition of the first input check, negated.
FileContentOk(fc) == Truthy(fc) /\ fc.t = "string" /\ Trim(fc.s) # <<>>

\* The condition of the second input check, negated.
FileNameOk(fn) == Truthy(fn) /\ fn.t = "string"

\* The checks with the payload validated before the caller's identity.
Reject_PayloadFirst(a, d, ai) ==
    IF ~FileContentOk(d.fileContent) THEN HttpsError("invalid-argument", MsgFileContent)
    ELSE IF ~FileNameOk(d.fileName) THEN HttpsError("invalid-argument", MsgFileName)
    ELSE IF a = None THEN HttpsError("unauthenticated", MsgUnauthenticated)
    ELSE IF ~ai THEN HttpsError("internal", MsgAiInit)
    ELSE NoResponse

\* The checks without the one of the generation client.
Reject_NoAiCheck(a, d, ai) ==
    IF a = None THEN HttpsError("unauthenticated", MsgUnauthenticated)
    ELSE IF ~FileContentOk(d.fileContent) THEN HttpsError("invalid-argument", MsgFileContent)
    ELSE IF ~FileNameOk(d.fileName) THEN HttpsError("invalid-argument", MsgFileName)
    ELSE NoResponse

\* The checks the handler makes before it touches any service, in the order
\* of the code: the error thrown, or NoResponse when the request passes.
Reject(a, d, ai) ==
    IF a = None THEN HttpsError("unauthenticated", MsgUnauthenticated)
    ELSE IF ~FileContentOk(d.fileContent) THEN HttpsError("invalid-argument", MsgFileContent)
    ELSE IF ~FileNameOk(d.fileName) THEN HttpsError("invalid-argument", MsgFileName)
    ELSE IF ~ai THEN HttpsError("internal", MsgAiInit)
    ELSE NoResponse

\* -------------------------------------------------------------- the store
\* analysisRecord as built before the insert.
AnalysisRecord(uid, name) ==
    [userId |-> uid, fileName |-> name, status |-> "processing", createdAt |-> TRUE,
     report |-> None, error |-> None, lastUpdated |-> FALSE]

\* The 'completed' patch without the report text.
SetCompleted_NoReport(rec, text) ==
    [rec EXCEPT !.status = "completed", !.lastUpdated = TRUE]

\* { $set: { status: "completed", report: reportText, lastUpdated: new Date() } }
SetCompleted(rec, text) ==
    [rec EXCEPT !.status = "completed", !.report = Some(text), !.lastUpdated = TRUE]

\* The 'error' patch without the status.
SetError_NoStatus(rec, m) ==
    [rec EXCEPT !.error = Some(m), !.lastUpdated = TRUE]

\* { $set: { status: "error", error: errorMessage, lastUpdated: new Date() } }
SetError(rec, m) ==
    [rec EXCEPT !.status = "error", !.error = Some(m), !.lastUpdated = TRUE]

\* The collection after an updateOne({_id: id}, {$set: ...}) that was applied.
Applied(id, rec) ==
    /\ store' = [store EXCEPT ![id] = rec]
    /\ writes' = [writes EXCEPT ![id] = @ + 1]
    /\ insertedBy' = insertedBy

\* The check of the generation result: TRUE when text can be extracted.
HasText(result) ==
    /\ result.response
    /\ result.candidates
    /\ result.text # None
    /\ result.text[1] # ""

\* ------------------------------------------------------------- the start
TypeOK ==
    /\ genAI \in BOOLEAN
    /\ mongoUri \in BOOLEAN
    /\ mongoClient \in 0 .. NumInv
    /\ mongoDb \in 0 .. NumInv
    /\ clients \in [Invs -> {"absent", "connecting", "connected", "lost", "closed"}]
    /\ Len(store) = Len(insertedBy)
    /\ Len(store) = Len(writes)
    /\ pc \in [Invs -> {"idle", "connect", "close", "connectToMongo", "insertOne",
                        "generateContent", "updateCompleted", "updateError", "done"}]
    /\ auth \in [Invs -> Auths]
    /\ data \in [Invs -> Payloads \cup {[fileContent |-> Undef, fileName |-> Undef]}]
    /\ mongoDocId \in [Invs -> 0 .. NumInv]
    /\ overlapped \in BOOLEAN
    /\ hpc \in [Reqs -> {"idle", "generateContent", "done"}]
    /\ hGenCalls \in [Reqs -> 0 .. 1]
    /\ \A r \in Reqs :
           /\ req[r].method \in {"", "GET", "POST"}
           /\ req[r].body \in BOOLEAN
           /\ req[r].fileContent \in FileContents
           /\ res[r].status \in {0, 200, 400, 405, 500}
           /\ aiResponse[r] \in {None} \cup {Some(x) : x \in GenResults}

\* The process after the module was loaded: the two secrets are set or not,
\* no connection was made and no invocation has arrived.
Init ==
    /\ genAI \in BOOLEAN
    /\ mongoUri \in BOOLEAN
    /\ mongoClient = 0
    /\ mongoDb = 0
    /\ clients = [i \in Invs |-> "absent"]
    /\ store = <<>>
    /\ insertedBy = <<>>
    /\ writes = <<>>
    /\ pc = [i \in Invs |-> "idle"]
    /\ auth = [i \in Invs |-> None]
    /\ data = [i \in Invs |-> [fileContent |-> Undef, fileName |-> Undef]]
    /\ connResult = [i \in Invs |-> [ok |-> FALSE, db |-> 0, msg |-> ""]]
    /\ connError = [i \in Invs |-> ""]
    /\ mongoDocId = [i \in Invs |-> 0]
    /\ reportText = [i \in Invs |-> ""]
    /\ errorMessage = [i \in Invs |-> ""]
    /\ response = [i \in Invs |-> NoResponse]
    /\ genCalls = [i \in Invs |-> 0]
    /\ primary = [i \in Invs |-> [kind |-> "none", msg |-> ""]]
    /\ okUpd = [i \in Invs |-> "none"]
    /\ errUpd = [i \in Invs |-> "none"]
    /\ overlapped = FALSE
    /\ hpc = [r \in Reqs |-> "idle"]
    /\ req = [r \in Reqs |-> [method |-> "", body |-> FALSE, fileContent |-> Undef]]
    /\ aiResponse = [r \in Reqs |-> None]
    /\ res = [r \in Reqs |-> [status |-> 0, message |-> "", report |-> "", details |-> ""]]
    /\ hGenCalls = [r \in Reqs |-> 0]

\* ---------------------------------------------------------- connectToMongo
\* mongoClient && mongoClient.topology && mongoClient.topology.isConnected()
IsConnected == mongoClient # 0 /\ clients[mongoClient] = "connected"

Resolved(db) == [ok |-> TRUE, db |-> db, msg |-> ""]

Rejected(m) == [ok |-> FALSE, db |-> 0, msg |-> m]

\* connectToMongo without the check of the existing connection: every call
\* constructs a client.
ConnectToMongoCall_NoReuse(i) ==
    IF ~mongoUri
    THEN /\ connResult' = [connResult EXCEPT ![i] = Rejected(MsgNoUri)]
         /\ pc' = [pc EXCEPT ![i] = "connectToMongo"]
         /\ UNCHANGED connVars
    ELSE /\ mongoClient' = i
         /\ clients' = [clients EXCEPT ![i] = "connecting"]
         /\ pc' = [pc EXCEPT ![i] = "connect"]
         /\ UNCHANGED <<mongoDb, connResult>>

\* connectToMongo from its call to its first await: the shared handle is
\* returned when connected, the missing URI throws, and otherwise a new
\* client replaces the shared one and its connect() is awaited.
ConnectToMongoCall(i) ==
    IF IsConnected
    THEN /\ connResult' = [connResult EXCEPT ![i] = Resolved(mongoDb)]
         /\ pc' = [pc EXCEPT ![i] = "connectToMongo"]
         /\ UNCHANGED connVars
    ELSE IF ~mongoUri
    THEN /\ connResult' = [connResult EXCEPT ![i] = Rejected(MsgNoUri)]
         /\ pc' = [pc EXCEPT ![i] = "connectToMongo"]
         /\ UNCHANGED connVars
    ELSE /\ mongoClient' = i
         /\ clients' = [clients EXCEPT ![i] = "connecting"]
         /\ pc' = [pc EXCEPT ![i] = "connect"]
         /\ UNCHANGED <<mongoDb, connResult>>

\* await mongoClient.connect() resolves for the client this call constructed.
\* The lines after it read the shared mongoClient again, which another call
\* may have replaced or set to null in the meantime; on null, db() throws a
\* TypeError that the catch rethrows without closing anything.  A client
\* that another call closed while it was connecting ends up connected or
\* closed.
ConnectResolves(i) ==
    /\ pc[i] = "connect"
    /\ \E st \in (IF clients[i] = "closed" THEN {"connected", "closed"} ELSE {"connected"}) :
           clients' = [clients EXCEPT ![i] = st]
    /\ IF mongoClient = 0
       THEN /\ connResult' = [connResult EXCEPT ![i] = Rejected(MsgNullClient)]
            /\ UNCHANGED <<mongoClient, mongoDb>>
       ELSE /\ mongoDb' = mongoClient
            /\ connResult' = [connResult EXCEPT ![i] = Resolved(mongoClient)]
            /\ UNCHANGED mongoClient
    /\ pc' = [pc EXCEPT ![i] = "connectToMongo"]
    /\ UNCHANGED <<httpVars, overlapped, cfgVars, storeVars, reqVars, histVars, connError,
                   mongoDocId, reportText, errorMessage, response>>

\* await mongoClient.connect() rejects with message m: the catch closes the
\* shared client (whichever it is now) and awaits the close.
ConnectRejects(i, m) ==
    /\ pc[i] = "connect"
    /\ IF mongoClient # 0
       THEN /\ clients' = [clients EXCEPT ![mongoClient] = "closed"]
            /\ connError' = [connError EXCEPT ![i] = m]
            /\ pc' = [pc EXCEPT ![i] = "close"]
            /\ UNCHANGED connResult
       ELSE /\ connResult' = [connResult EXCEPT ![i] = Rejected(m)]
            /\ pc' = [pc EXCEPT ![i] = "connectToMongo"]
            /\ UNCHANGED <<clients, connError>>
    /\ UNCHANGED <<httpVars, overlapped, cfgVars, mongoClient, mongoDb, storeVars, reqVars, histVars,
                   mongoDocId, reportText, errorMessage, response>>

\* The end of the catch without the two assignments of null.
CloseResolves_KeepsHandles(i) ==
    /\ pc[i] = "close"
    /\ connResult' = [connResult EXCEPT ![i] = Rejected(connError[i])]
    /\ pc' = [pc EXCEPT ![i] = "connectToMongo"]
    /\ UNCHANGED <<httpVars, overlapped, cfgVars, connVars, storeVars, reqVars, histVars,
                   connError, mongoDocId, reportText, errorMessage, response>>

\* await mongoClient.close() is over: both shared handles are set to null
\* and the connect error is rethrown.
CloseResolves(i) ==
    /\ pc[i] = "close"
    /\ mongoClient' = 0
    /\ mongoDb' = 0
    /\ connResult' = [connResult EXCEPT ![i] = Rejected(connError[i])]
    /\ pc' = [pc EXCEPT ![i] = "connectToMongo"]
    /\ UNCHANGED <<httpVars, overlapped, cfgVars, clients, storeVars, reqVars, histVars, connError,
                   mongoDocId, reportText, errorMessage, response>>

\* ------------------------------------------------------ analyzeCsvContent
\* The reply of the catch block without the failure's message.
CatchReply_NoMessage(m) == HttpsError("internal", <<"AI Analysis Failed">>)

\* The reply of the catch block: built from the primary failure's message.
CatchReply(m) == HttpsError("internal", MsgAnalysisFailed(m))

\* TRUE when the catch block attempts the 'error' update: an id was obtained.
RecordsError(id) == id # 0

\* The catch block up to its await, entered with an error of message m that
\* came from the step named kind.
CatchBlock(i, kind, m) ==
    /\ errorMessage' = [errorMessage EXCEPT ![i] = ErrorMessage(m)]
    /\ primary' = [primary EXCEPT ![i] = [kind |-> kind, msg |-> m]]
    /\ IF RecordsError(mongoDocId[i])
       THEN /\ pc' = [pc EXCEPT ![i] = "updateError"]
            /\ UNCHANGED response
       ELSE /\ response' = [response EXCEPT ![i] = CatchReply(ErrorMessage(m))]
            /\ pc' = [pc EXCEPT ![i] = "done"]

\* An invocation arrives with caller identity a and payload d and runs to
\* its first await: a rejected request ends here, an accepted one is left
\* inside connectToMongo.
Invoke(i, a, d) ==
    /\ pc[i] = "idle"
    /\ auth' = [auth EXCEPT ![i] = a]
    /\ data' = [data EXCEPT ![i] = d]
    /\ IF Reject(a, d, genAI) # NoResponse
       THEN /\ response' = [response EXCEPT ![i] = Reject(a, d, genAI)]
            /\ pc' = [pc EXCEPT ![i] = "done"]
            /\ UNCHANGED <<connVars, connResult>>
       ELSE /\ ConnectToMongoCall(i)
            /\ UNCHANGED response
    /\ UNCHANGED <<httpVars, overlapped, cfgVars, storeVars, histVars, connError, mongoDocId,
                   reportText, errorMessage>>

\* The promise of connectToMongo once the handler has consumed it.
Settled == [ok |-> FALSE, db |-> 0, msg |-> ""]

\* await connectToMongo() settles: on a db handle (currentDb) the record is
\* built, the collection is taken from the handle and insertOne is called;
\* on an error the handler throws its own 'internal'.  The handle is used
\* in this segment only, so it is not kept.
ConnectToMongoSettles(i) ==
    /\ pc[i] = "connectToMongo"
    /\ IF connResult[i].ok
       THEN /\ pc' = [pc EXCEPT ![i] = "insertOne"]
            /\ UNCHANGED <<response, primary>>
       ELSE /\ response' = [response EXCEPT ![i] = HttpsError("internal", MsgDbConnect)]
            /\ primary' = [primary EXCEPT ![i] = [kind |-> "connect", msg |-> connResult[i].msg]]
            /\ pc' = [pc EXCEPT ![i] = "done"]
    /\ connResult' = [connResult EXCEPT ![i] = Settled]
    /\ UNCHANGED <<httpVars, overlapped, cfgVars, connVars, storeVars, reqVars, connError,
                   mongoDocId, reportText, errorMessage, genCalls, okUpd, errUpd>>

\* The collection after insertOne(analysisRecord) of invocation i was applied.
Inserted(i) ==
    /\ store' = Append(store, AnalysisRecord(auth[i][1], data[i].fileName))
    /\ insertedBy' = Append(insertedBy, i)
    /\ writes' = Append(writes, 1)

\* await insertOne resolves: the id is kept and model.generateContent is called.
InsertResolves(i) ==
    /\ pc[i] = "insertOne"
    /\ Inserted(i)
    /\ mongoDocId' = [mongoDocId EXCEPT ![i] = Len(store) + 1]
    /\ genCalls' = [genCalls EXCEPT ![i] = @ + 1]
    /\ pc' = [pc EXCEPT ![i] = "generateContent"]
    /\ UNCHANGED <<httpVars, overlapped, cfgVars, connVars, reqVars, connResult, connError,
                   reportText, errorMessage, response, primary, okUpd, errUpd>>

\* A rejected insertOne that is logged and ignored: the handler goes on to
\* call model.generateContent.
InsertRejects_Ignored(i, m) ==
    /\ pc[i] = "insertOne"
    /\ genCalls' = [genCalls EXCEPT ![i] = @ + 1]
    /\ pc' = [pc EXCEPT ![i] = "generateContent"]
    /\ UNCHANGED <<httpVars, overlapped, cfgVars, connVars, storeVars, reqVars, localVars, response,
                   primary, okUpd, errUpd>>

\* await insertOne rejects with message m and nothing was written.
InsertRejects(i, m) ==
    /\ pc[i] = "insertOne"
    /\ UNCHANGED storeVars
    /\ CatchBlock(i, "insert", m)
    /\ UNCHANGED <<httpVars, overlapped, cfgVars, connVars, reqVars, connResult, connError,
                   mongoDocId, reportText, genCalls, okUpd, errUpd>>

\* await model.generateContent resolves with result r: with text the
\* 'completed' update is called, without it the handler throws.
GenerateResolves(i, r) ==
    /\ pc[i] = "generateContent"
    /\ IF HasText(r)
       THEN /\ reportText' = [reportText EXCEPT ![i] = r.text[1]]
            /\ pc' = [pc EXCEPT ![i] = "updateCompleted"]
            /\ UNCHANGED <<errorMessage, primary, response>>
       ELSE /\ CatchBlock(i, "generation", MsgInvalidResponse)
            /\ UNCHANGED reportText
    /\ UNCHANGED <<httpVars, overlapped, cfgVars, connVars, storeVars, reqVars, connResult, connError,
                   mongoDocId, genCalls, okUpd, errUpd>>

\* A rejected generation call that is retried once before it is given up.
GenerateRejects_Retry(i, m) ==
    /\ pc[i] = "generateContent"
    /\ IF genCalls[i] < 2
       THEN /\ genCalls' = [genCalls EXCEPT ![i] = @ + 1]
            /\ UNCHANGED <<pc, errorMessage, primary, response>>
       ELSE /\ CatchBlock(i, "generation", m)
            /\ UNCHANGED genCalls
    /\ UNCHANGED <<httpVars, overlapped, cfgVars, connVars, storeVars, reqVars, connResult, connError,
                   mongoDocId, reportText, okUpd, errUpd>>

\* await model.generateContent rejects with message m.
GenerateRejects(i, m) ==
    /\ pc[i] = "generateContent"
    /\ CatchBlock(i, "generation", m)
    /\ UNCHANGED <<httpVars, overlapped, cfgVars, connVars, storeVars, reqVars, connResult, connError,
                   mongoDocId, reportText, genCalls, okUpd, errUpd>>

\* A 'completed' update whose count other than 1 is thrown as an error.
UpdateCompletedResolves_ZeroThrows(i, n) ==
    /\ pc[i] = "updateCompleted"
    /\ IF n = 1
       THEN /\ Applied(mongoDocId[i], SetCompleted(store[mongoDocId[i]], reportText[i]))
            /\ okUpd' = [okUpd EXCEPT ![i] = "applied"]
            /\ response' = [response EXCEPT ![i] =
                               SuccessResponse(mongoDocId[i], reportText[i], data[i].fileName)]
            /\ pc' = [pc EXCEPT ![i] = "done"]
            /\ UNCHANGED <<errorMessage, primary>>
       ELSE /\ okUpd' = [okUpd EXCEPT ![i] = "zero"]
            /\ CatchBlock(i, "update", "E2")
            /\ UNCHANGED storeVars
    /\ UNCHANGED <<httpVars, overlapped, cfgVars, connVars, reqVars, connResult, connError,
                   mongoDocId, reportText, genCalls, errUpd>>

\* await updateOne (status 'completed') resolves with modifiedCount n: a
\* count other than 1 is logged as a warning, and the handler returns.
UpdateCompletedResolves(i, n) ==
    /\ pc[i] = "updateCompleted"
    /\ IF n = 1
       THEN Applied(mongoDocId[i], SetCompleted(store[mongoDocId[i]], reportText[i]))
       ELSE UNCHANGED storeVars
    /\ okUpd' = [okUpd EXCEPT ![i] = IF n = 1 THEN "applied" ELSE "zero"]
    /\ response' = [response EXCEPT ![i] =
                       SuccessResponse(mongoDocId[i], reportText[i], data[i].fileName)]
    /\ pc' = [pc EXCEPT ![i] = "done"]
    /\ UNCHANGED <<httpVars, overlapped, cfgVars, connVars, reqVars, localVars, genCalls, primary, errUpd>>

\* await updateOne (status 'completed') rejects with message m, the write
\* applied or not: the catch block runs.
UpdateCompletedRejects(i, m, applied) ==
    /\ pc[i] = "updateCompleted"
    /\ IF applied
       THEN Applied(mongoDocId[i], SetCompleted(store[mongoDocId[i]], reportText[i]))
       ELSE UNCHANGED storeVars
    /\ okUpd' = [okUpd EXCEPT ![i] = IF applied THEN "appliedThrows" ELSE "throws"]
    /\ CatchBlock(i, "update", m)
    /\ UNCHANGED <<httpVars, overlapped, cfgVars, connVars, reqVars, connResult, connError,
                   mongoDocId, reportText, genCalls, errUpd>>

\* await updateOne (status 'error') resolves with modifiedCount n; the
\* handler throws the 'internal' error of the primary failure.
UpdateErrorResolves(i, n) ==
    /\ pc[i] = "updateError"
    /\ IF n = 1
       THEN Applied(mongoDocId[i], SetError(store[mongoDocId[i]], errorMessage[i]))
       ELSE UNCHANGED storeVars
    /\ errUpd' = [errUpd EXCEPT ![i] = IF n = 1 THEN "applied" ELSE "zero"]
    /\ response' = [response EXCEPT ![i] = CatchReply(errorMessage[i])]
    /\ pc' = [pc EXCEPT ![i] = "done"]
    /\ UNCHANGED <<httpVars, overlapped, cfgVars, connVars, reqVars, localVars, genCalls, primary, okUpd>>

\* A rejected 'error' update whose own error is thrown to the caller.
UpdateErrorRejects_Rethrown(i, m, applied) ==
    /\ pc[i] = "updateError"
    /\ IF applied
       THEN Applied(mongoDocId[i], SetError(store[mongoDocId[i]], errorMessage[i]))
       ELSE UNCHANGED storeVars
    /\ errUpd' = [errUpd EXCEPT ![i] = IF applied THEN "appliedThrows" ELSE "throws"]
    /\ response' = [response EXCEPT ![i] = CatchReply(ErrorMessage(m))]
    /\ pc' = [pc EXCEPT ![i] = "done"]
    /\ UNCHANGED <<httpVars, overlapped, cfgVars, connVars, reqVars, localVars, genCalls, primary, okUpd>>

\* await updateOne (status 'error') rejects with message m, the write
\* applied or not: the inner catch logs it and the handler throws the
\* 'internal' error of the primary failure.
UpdateErrorRejects(i, m, applied) ==
    /\ pc[i] = "updateError"
    /\ IF applied
       THEN Applied(mongoDocId[i], SetError(store[mongoDocId[i]], errorMessage[i]))
       ELSE UNCHANGED storeVars
    /\ errUpd' = [errUpd EXCEPT ![i] = IF applied THEN "appliedThrows" ELSE "throws"]
    /\ response' = [response EXCEPT ![i] = CatchReply(errorMessage[i])]
    /\ pc' = [pc EXCEPT ![i] = "done"]
    /\ UNCHANGED <<httpVars, overlapped, cfgVars, connVars, reqVars, localVars, genCalls, primary, okUpd>>

Next ==
    \/ \E i \in Invs, a \in Auths, d \in Payloads : Invoke(i, a, d)
    \/ \E i \in Invs : ConnectResolves(i)
    \/ \E i \in Invs, m \in DriverMessages : ConnectRejects(i, m)
    \/ \E i \in Invs : CloseResolves(i)
    \/ \E i \in Invs : ConnectToMongoSettles(i)
    \/ \E i \in Invs : InsertResolves(i)
    \/ \E i \in Invs, m \in DriverMessages : InsertRejects(i, m)
    \/ \E i \in Invs, r \in GenResults : GenerateResolves(i, r)
    \/ \E i \in Invs, m \in GenMessages : GenerateRejects(i, m)
    \/ \E i \in Invs, n \in {0, 1} : UpdateCompletedResolves(i, n)
    \/ \E i \in Invs, m \in DriverMessages, applied \in BOOLEAN : UpdateCompletedRejects(i, m, applied)
    \/ \E i \in Invs, n \in {0, 1} : UpdateErrorResolves(i, n)
    \/ \E i \in Invs, m \in DriverMessages, applied \in BOOLEAN : UpdateErrorRejects(i, m, applied)

Spec == Init /\ [][Next]_vars

\* --------------------------------------------- connectToMongo on its own
\* The calls of connectToMongo, whoever makes them: each call is left with
\* its settled promise (pc "connectToMongo", connResult), and the
\* connection of a client may drop at any time.

\* Call i is between its await of connect() and the settling of its promise.
InFlight(i) == pc[i] \in {"connect", "close"}

\* connectToMongo() is called.
ConnectToMongo(i) ==
    /\ pc[i] = "idle"
    /\ ConnectToMongoCall(i)
    /\ overlapped' = (overlapped \/ \E j \in Invs \ {i} : InFlight(j))
    /\ UNCHANGED <<httpVars, cfgVars, storeVars, reqVars, histVars, connError,
                   mongoDocId, reportText, errorMessage, response>>

\* The connection of client c drops: topology.isConnected() turns false.
ConnectionLost(c) ==
    /\ clients[c] = "connected"
    /\ clients' = [clients EXCEPT ![c] = "lost"]
    /\ UNCHANGED <<httpVars, overlapped, cfgVars, mongoClient, mongoDb, storeVars,
                   reqVars, histVars, pc, localVars, response>>

NextMongo ==
    \/ \E i \in Invs : ConnectToMongo(i)
    \/ \E i \in Invs : ConnectResolves(i)
    \/ \E i \in Invs, m \in DriverMessages : ConnectRejects(i, m)
    \/ \E i \in Invs : CloseResolves(i)
    \/ \E c \in Invs : ConnectionLost(c)

SpecMongo == Init /\ [][NextMongo]_vars

\* ------------------------------------------------------- api/analyze.js
HttpMethods == {"GET", "POST"}

\* What ai.models.generateContent resolves to: a response object whose
\* candidates may be missing and whose first part may lack text.
HttpGenResults == {r \in GenResults : r.response}

\* res.status(405).send({ message })
MethodNotAllowed ==
    [status |-> 405, message |-> "Only POST requests allowed.", report |-> "", details |-> ""]

\* res.status(400).send({ message })
BadRequest ==
    [status |-> 400, message |-> "Missing file content in request body.", report |-> "",
     details |-> ""]

\* res.status(200).json({ report })
Ok(text) == [status |-> 200, message |-> "", report |-> text, details |-> ""]

\* res.status(500).send({ message, details: error.message })
ServerError(m) ==
    [status |-> 500,
     message |-> "AI analysis failed due to a server error. Check GEMINI_API_KEY setting.",
     report |-> "", details |-> m]

MsgNoReport == "AI analysis failed to generate a report."

\* The TypeError of destructuring { fileContent } from an undefined req.body.
MsgNoBody == "Cannot destructure property 'fileContent' of 'req.body' as it is undefined."

\* response.candidates?.[0]?.content?.parts?.[0]?.text || "AI analysis failed ..."
HttpReportText(result) ==
    IF result.candidates /\ result.text # None /\ result.text[1] # ""
    THEN result.text[1]
    ELSE MsgNoReport

\* A request arrives and the handler runs to its await: a request that is
\* not a POST gets 405; destructuring a request without a body throws inside
\* the try and the catch sends 500; a falsy fileContent gets 400; otherwise
\* ai.models.generateContent is called.  body says whether req.body is an
\* object, and fc is its fileContent (undefined when there is no body).
HttpRequest(r, method, body, fc) ==
    /\ hpc[r] = "idle"
    /\ ~body => fc = Undef
    /\ req' = [req EXCEPT ![r] = [method |-> method, body |-> body, fileContent |-> fc]]
    /\ IF method # "POST"
       THEN /\ res' = [res EXCEPT ![r] = MethodNotAllowed]
            /\ hpc' = [hpc EXCEPT ![r] = "done"]
            /\ UNCHANGED hGenCalls
       ELSE IF ~body
       THEN /\ res' = [res EXCEPT ![r] = ServerError(MsgNoBody)]
            /\ hpc' = [hpc EXCEPT ![r] = "done"]
            /\ UNCHANGED hGenCalls
       ELSE IF ~Truthy(fc)
       THEN /\ res' = [res EXCEPT ![r] = BadRequest]
            /\ hpc' = [hpc EXCEPT ![r] = "done"]
            /\ UNCHANGED hGenCalls
       ELSE /\ hGenCalls' = [hGenCalls EXCEPT ![r] = @ + 1]
            /\ hpc' = [hpc EXCEPT ![r] = "generateContent"]
            /\ UNCHANGED res
    /\ UNCHANGED <<callableVars, overlapped, aiResponse>>

\* await ai.models.generateContent resolves: the text of the first part, or
\* the fixed sentence when there is none, is sent with status 200.
HttpGenerateResolves(r, result) ==
    /\ hpc[r] = "generateContent"
    /\ aiResponse' = [aiResponse EXCEPT ![r] = Some(result)]
    /\ res' = [res EXCEPT ![r] = Ok(HttpReportText(result))]
    /\ hpc' = [hpc EXCEPT ![r] = "done"]
    /\ UNCHANGED <<callableVars, overlapped, req, hGenCalls>>

\* await ai.models.generateContent rejects with message m: status 500.
HttpGenerateRejects(r, m) ==
    /\ hpc[r] = "generateContent"
    /\ res' = [res EXCEPT ![r] = ServerError(m)]
    /\ hpc' = [hpc EXCEPT ![r] = "done"]
    /\ UNCHANGED <<callableVars, overlapped, req, aiResponse, hGenCalls>>

NextHttp ==
    \/ \E r \in Reqs, method \in HttpMethods, body \in BOOLEAN, fc \in FileContents :
           HttpRequest(r, method, body, fc)
    \/ \E r \in Reqs, result \in HttpGenResults : HttpGenerateResolves(r, result)
    \/ \E r \in Reqs, m \in GenMessages : HttpGenerateRejects(r, m)

SpecHttp == Init /\ [][NextHttp]_vars

\* ================================================================ claims
Done(i) == pc[i] = "done"

\* The ids of the records invocation i inserted.
RecordsOf(i) == {id \in 1 .. Len(store) : insertedBy[id] = i}

\* Invocation i has reached no service: it constructed no client, inserted
\* nothing, called neither the generation service nor an update.
NoExternalCall(i) ==
    /\ clients[i] = "absent"
    /\ RecordsOf(i) = {}
    /\ mongoDocId[i] = 0
    /\ genCalls[i] = 0
    /\ okUpd[i] = "none"
    /\ errUpd[i] = "none"

\* fileContent is absent, empty or made of whitespace only.
Blank(fc) ==
    \/ fc.t = "undefined"
    \/ fc.t = "string" /\ \A k \in 1 .. Len(fc.s) : fc.s[k] = " "

\* The generation call of invocation i returned extractable text.
GenSucceeded(i) == okUpd[i] # "none"

\* The generation call of invocation i threw or returned no text.
GenFailed(i) == primary[i].kind = "generation"

\* The record as inserted by invocation i, never updated.
Untouched(i) == AnalysisRecord(auth[i][1], data[i].fileName)

\* C1: an invocation calls model.generateContent only after its own
\* insertOne of a 'processing' record has resolved: the caller is
\* authenticated, the payload valid, the id is known and that record is in
\* the collection, still 'processing' while the generation call is pending.
C1_InsertBeforeGeneration ==
    \A i \in Invs :
        genCalls[i] > 0 =>
            /\ auth[i] # None
            /\ FileContentOk(data[i].fileContent)
            /\ FileNameOk(data[i].fileName)
            /\ mongoDocId[i] \in RecordsOf(i)
            /\ pc[i] = "generateContent" => store[mongoDocId[i]] = Untouched(i)

C1_Witness == \E i \in Invs : pc[i] = "generateContent" /\ genCalls[i] = 1

\* C2 (as stated): whenever the generation call succeeded, the invocation
\* ends with its record 'completed', report set to the generated text and
\* error null, whatever the outcome of the 'completed' update.
C2_CompletedForEveryOutcome ==
    \A i \in Invs :
        Done(i) /\ GenSucceeded(i) =>
            /\ store[mongoDocId[i]].status = "completed"
            /\ store[mongoDocId[i]].report = Some(reportText[i])
            /\ store[mongoDocId[i]].error = None

\* C2 (amended): when the generation call succeeded and the 'completed'
\* update was applied and resolved, the invocation ends with its record
\* 'completed', report set to the generated text and error null; when the
\* update resolved with zero rows changed the record is still as inserted.
C2_CompletedWhenApplied ==
    \A i \in Invs :
        /\ Done(i) /\ okUpd[i] = "applied" =>
               /\ store[mongoDocId[i]].status = "completed"
               /\ store[mongoDocId[i]].report = Some(reportText[i])
               /\ store[mongoDocId[i]].error = None
               /\ reportText[i] \in Texts
        /\ Done(i) /\ okUpd[i] = "zero" => store[mongoDocId[i]] = Untouched(i)

C2_Witness == \E i \in Invs : Done(i) /\ okUpd[i] = "applied"

\* C3 (as stated): whenever the generation call failed, the invocation ends
\* with its record in status 'error', error set to the failure message and
\* report null, and the caller receives an 'internal' error.
C3_ErrorRecordedAlways ==
    \A i \in Invs :
        Done(i) /\ GenFailed(i) =>
            /\ store[mongoDocId[i]].status = "error"
            /\ store[mongoDocId[i]].error = Some(ErrorMessage(primary[i].msg))
            /\ store[mongoDocId[i]].report = None
            /\ response[i].kind = "error"
            /\ response[i].code = "internal"

\* C3 (amended): whenever the generation call failed, the caller receives
\* an 'internal' error; the record ends in status 'error' with error set to
\* the failure message (the fallback text for an empty message) and report
\* null when the 'error' update was applied, and is still as inserted
\* ('processing', report and error null) when it was not.
C3_ErrorRecordedBestEffort ==
    \A i \in Invs :
        Done(i) /\ GenFailed(i) =>
            /\ response[i].kind = "error"
            /\ response[i].code = "internal"
            /\ IF errUpd[i] \in {"applied", "appliedThrows"}
               THEN /\ store[mongoDocId[i]].status = "error"
                    /\ store[mongoDocId[i]].error = Some(ErrorMessage(primary[i].msg))
                    /\ store[mongoDocId[i]].report = None
               ELSE store[mongoDocId[i]] = Untouched(i)

C3_Witness ==
    \E i \in Invs : Done(i) /\ GenFailed(i) /\ errUpd[i] = "applied" /\ primary[i].msg = ""

C5_UnauthenticatedFirst ==
    \A i \in Invs :
        pc[i] # "idle" /\ auth[i] = None =>
            /\ Done(i)
            /\ response[i] = HttpsError("unauthenticated", MsgUnauthenticated)
            /\ NoExternalCall(i)

C5_Witness ==
    \E i \in Invs :
        /\ Done(i) /\ auth[i] = None
        /\ ~FileContentOk(data[i].fileContent)
        /\ ~FileNameOk(data[i].fileName)

\* The ids of the records whose identifier, written out, is the text rid.
IdsNamed(rid) == {id \in 1 .. Len(store) : ToString(id) = rid}

\* C6 (as stated): whenever an invocation returned the success reply, the
\* record named by reportId is the record that invocation inserted, and it
\* has status 'completed' with report equal to the returned text.
C6_ReplyNamesCompletedRecord ==
    \A i \in Invs :
        Done(i) /\ response[i].kind = "success" =>
            /\ IdsNamed(response[i].reportId) = RecordsOf(i)
            /\ \A id \in IdsNamed(response[i].reportId) :
                   /\ store[id].status = "completed"
                   /\ store[id].report = Some(response[i].report)

\* C6 (amended): whenever an invocation returned the success reply, the
\* record named by reportId is the one record that invocation inserted; it
\* has status 'completed' with report equal to the returned text when the
\* 'completed' update changed it, and is still as inserted ('processing',
\* report null) when the update reported zero rows changed.
C6_ReplyNamesOwnRecord ==
    \A i \in Invs :
        Done(i) /\ response[i].kind = "success" =>
            /\ IdsNamed(response[i].reportId) = RecordsOf(i)
            /\ Cardinality(RecordsOf(i)) = 1
            /\ response[i].code = "completed"
            /\ \A id \in IdsNamed(response[i].reportId) :
                   IF okUpd[i] = "applied"
                   THEN /\ store[id].status = "completed"
                        /\ store[id].report = Some(response[i].report)
                   ELSE /\ okUpd[i] = "zero"
                        /\ store[id] = Untouched(i)

C6_Witness ==
    \E i \in Invs :
        /\ Done(i) /\ response[i].kind = "success" /\ okUpd[i] = "applied"
        /\ mongoDocId[i] = 2

\* C7 (as stated): every record whose status is not 'processing' has
\* exactly one of report and error set: report for 'completed', error for
\* 'error'.
C7_ExactlyOneOfReportAndError ==
    \A id \in 1 .. Len(store) :
        /\ store[id].status = "completed" =>
               store[id].report # None /\ store[id].error = None
        /\ store[id].status = "error" =>
               store[id].error # None /\ store[id].report = None

\* C8 (as stated): a record is written at most twice, a record whose status
\* is 'completed' or 'error' is never written again, and no record is
\* deleted.
C8_TerminalRecordNeverWritten ==
    [][/\ Len(store') >= Len(store)
       /\ \A id \in 1 .. Len(store) :
              /\ writes'[id] <= 2
              /\ store[id].status \in {"completed", "error"} =>
                     store'[id] = store[id] /\ writes'[id] = writes[id]]_vars

\* The message of a reply carries the text m (every message carries the
\* empty text).
Carries(message, m) == m = "" \/ \E k \in 1 .. Len(message) : message[k] = m

\* A failure after validation occurred in invocation i.
Failed(i) == primary[i].kind # "none"

\* C9 (as stated): every failure after input validation (connect, insert,
\* generation, update) reaches the caller as an 'internal' error whose
\* message carries the message of that failure, and never as a success.
C9_InternalWithOriginalMessage ==
    \A i \in Invs :
        Done(i) /\ Failed(i) =>
            /\ response[i].kind = "error"
            /\ response[i].code = "internal"
            /\ Carries(response[i].message, primary[i].msg)

\* C9 (amended): every failure after input validation reaches the caller as
\* an 'internal' error and never as a success; for an insert, generation or
\* update failure the message is "AI Analysis Failed: " followed by the
\* message of that failure (the fallback text when it is empty), and for a
\* connect failure it is the fixed text "Database connection failed.
\* Contact support.", without the message of the failure.
C9_InternalForEveryFailure ==
    \A i \in Invs :
        Done(i) /\ Failed(i) =>
            /\ response[i].kind = "error"
            /\ response[i].code = "internal"
            /\ IF primary[i].kind = "connect"
               THEN response[i].message = MsgDbConnect
               ELSE /\ response[i].message = MsgAnalysisFailed(ErrorMessage(primary[i].msg))
                    /\ Carries(response[i].message, primary[i].msg)

C9_Witness ==
    /\ \E i \in Invs : Done(i) /\ primary[i].kind = "connect" /\ primary[i].msg = "E2"
    /\ \E i \in Invs : Done(i) /\ primary[i].kind = "update"

\* C10: when the 'error' update itself throws without having written, the
\* caller still receives the 'internal' error built from the message of the
\* primary failure, and the collection is left as it was.
C10_RecordingFailureNotRaised ==
    [][\A i \in Invs :
           pc[i] = "updateError" /\ errUpd'[i] = "throws" =>
               /\ pc'[i] = "done"
               /\ response'[i] = HttpsError("internal", MsgAnalysisFailed(errorMessage[i]))
               /\ errorMessage[i] = ErrorMessage(primary[i].msg)
               /\ primary'[i] = primary[i]
               /\ store' = store]_vars

C10_Witness ==
    \E i \in Invs : Done(i) /\ errUpd[i] = "throws" /\ primary[i].msg = "E1"

\* C14: when the 'completed' update resolves with zero rows changed, the
\* invocation still returns the success reply with status 'completed': no
\* error is raised, no failure is recorded and no 'error' update is
\* attempted, so the record has been written once, by the insert.
C14_ZeroRowsIsWarning ==
    \A i \in Invs :
        okUpd[i] = "zero" =>
            /\ Done(i)
            /\ response[i] = SuccessResponse(mongoDocId[i], reportText[i], data[i].fileName)
            /\ response[i].kind = "success"
            /\ response[i].code = "completed"
            /\ ~Failed(i)
            /\ errUpd[i] = "none"
            /\ writes[mongoDocId[i]] = 1

C14_Witness == \E i \in Invs : Done(i) /\ okUpd[i] = "zero"

\* The request of invocation i is authenticated and well formed.
WellFormed(i) ==
    /\ auth[i] # None
    /\ FileContentOk(data[i].fileContent)
    /\ FileNameOk(data[i].fileName)

\* C15: when the generation client was not constructed at load time, it
\* stays so, every authenticated, well-formed request is over after its
\* first step with the 'internal' error of the failed initialisation,
\* connectToMongo is not called, and the process never constructs a client,
\* inserts a record or calls the generation service.
C15_InitFailureBlocksRequests ==
    ~genAI =>
        /\ \A i \in Invs :
               pc[i] # "idle" /\ WellFormed(i) =>
                   /\ Done(i)
                   /\ response[i] = HttpsError("internal", MsgAiInit)
                   /\ NoExternalCall(i)
                   /\ connResult[i] = [ok |-> FALSE, db |-> 0, msg |-> ""]
        /\ mongoClient = 0
        /\ store = <<>>
        /\ \A i \in Invs : genCalls[i] = 0 /\ clients[i] = "absent"

C15_Witness ==
    /\ ~genAI
    /\ mongoUri
    /\ \A i \in Invs : Done(i) /\ WellFormed(i)

\* C16: an invocation calls model.generateContent at most once; after a
\* failed or unusable generation result it makes no second call and the
\* caller receives the 'internal' error of that failure.
C16_SingleGenerationAttempt ==
    \A i \in Invs :
        /\ genCalls[i] <= 1
        /\ GenFailed(i) => genCalls[i] = 1 /\ pc[i] \in {"updateError", "done"}
        /\ Done(i) /\ GenFailed(i) =>
               response[i] = HttpsError("internal", MsgAnalysisFailed(ErrorMessage(primary[i].msg)))

C16_Witness ==
    /\ \E i \in Invs : Done(i) /\ GenFailed(i) /\ primary[i].msg = "E1"
    /\ \E i \in Invs : Done(i) /\ GenFailed(i) /\ primary[i].msg = MsgInvalidResponse

\* Call i of connectToMongo has returned a db handle.
Returned(i) == pc[i] = "connectToMongo" /\ connResult[i].ok

\* Call i of connectToMongo has thrown.
Thrown(i) == pc[i] = "connectToMongo" /\ ~connResult[i].ok

\* Call i of connectToMongo begins in this step.
Begins(i) == pc[i] = "idle" /\ pc'[i] # "idle"

\* C12: a call made while the shared client is connected returns the
\* shared handle at once, constructs no client and opens no connection; in
\* a run without overlapping calls that handle belongs to the connected
\* client and is the one every earlier call returned whose connection is
\* still up.  A call made without a connection and without a connection
\* string throws and constructs no client.
C12_ConnectionReused ==
    [][\A i \in Invs :
           Begins(i) =>
               /\ IsConnected =>
                      /\ pc'[i] = "connectToMongo"
                      /\ connResult'[i] = Resolved(mongoDb)
                      /\ mongoClient' = mongoClient /\ mongoDb' = mongoDb /\ clients' = clients
                      /\ ~overlapped' =>
                             /\ mongoDb = mongoClient
                             /\ \A j \in Invs :
                                    Returned(j) /\ clients[connResult[j].db] = "connected" =>
                                        connResult[j].db = connResult'[i].db
               /\ ~IsConnected /\ ~mongoUri =>
                      /\ pc'[i] = "connectToMongo"
                      /\ connResult'[i] = Rejected(MsgNoUri)
                      /\ mongoClient' = mongoClient /\ mongoDb' = mongoDb /\ clients' = clients
                      /\ clients[i] = "absent"]_vars

C12_Witness ==
    /\ ~overlapped
    /\ \E i, j \in Invs :
           /\ i # j
           /\ Returned(i) /\ Returned(j)
           /\ connResult[i].db = i
           /\ connResult[j].db = i
           /\ clients[i] = "connected"
           /\ clients[j] = "absent"

\* C13 (as stated): with concurrent first calls, a call that returns
\* normally returns the handle of a client that is connected, and a connect
\* failure of one call neither closes nor unsets the client that another
\* call has returned while it is connected.
C13_ConcurrentCallsConverge ==
    [][\A i \in Invs :
           /\ pc[i] = "connect" /\ Returned(i)' =>
                  clients'[connResult'[i].db] = "connected"
           /\ pc[i] = "connect" /\ pc'[i] = "close" =>
                  \A j \in Invs \ {i} :
                      Returned(j) /\ clients[connResult[j].db] = "connected" =>
                          clients'[connResult[j].db] = "connected"
           /\ pc[i] = "close" /\ pc'[i] # "close" =>
                  \A j \in Invs \ {i} :
                      Returned(j) /\ clients[connResult[j].db] = "connected"
                                  /\ mongoClient = connResult[j].db =>
                          mongoClient' = mongoClient]_vars

LacksText(result) ==
    \/ ~result.response
    \/ ~result.candidates
    \/ result.text = None
    \/ result.text = Some("")

\* C11 (as stated): a generation result without extractable text never
\* leads to a success reply, neither from analyzeCsvContent nor from the
\* HTTP handler of api/analyze.js.
C11_NoTextIsFailure ==
    /\ \A i \in Invs :
           Done(i) /\ primary[i] = [kind |-> "generation", msg |-> MsgInvalidResponse] =>
               response[i].kind = "error"
    /\ \A r \in Reqs :
           hpc[r] = "done" /\ aiResponse[r] # None /\ LacksText(aiResponse[r][1]) =>
               res[r].status # 200

\* C17 (as stated): the HTTP handler answers a request that is not a POST,
\* or whose fileContent is absent, empty or whitespace-only, with status 405
\* or 400 in its first step and never calls the generation service for it.
C17_HttpRejectsBeforeGeneration ==
    \A r \in Reqs :
        hpc[r] # "idle" /\ (req[r].method # "POST" \/ Blank(req[r].fileContent)) =>
            /\ hpc[r] = "done"
            /\ hGenCalls[r] = 0
            /\ res[r].status \in {400, 405}

====
